---- MODULE Spec2Model ----
(***************************************************************************)
(* The stdio JSON-RPC server of src/src/index.ts (class                     *)
(* ImageAnalysisServer, lines 118-531): the 'data' handler that frames      *)
(* newline-delimited lines, JSON.parse, handleRequest and the five          *)
(* registered handlers, the tools/call pipeline (checkOpenaiKey,            *)
(* analyzeImage with its awaits on fs.readFile, sharp and fetch) and the    *)
(* promise callbacks that write the reply envelopes.                        *)
(*                                                                          *)
(* One step of the model is one turn of the Node.js event loop: a callback  *)
(* together with the promise jobs it leaves behind.  Standard input is a    *)
(* sequence of characters; a character is "\n", " ", "[", "]" or the whole  *)
(* text of one JSON value (see Texts).                                      *)
(***************************************************************************)
EXTENDS Naturals, Sequences, FiniteSets, TLC

VARIABLES
    repertoire,  \* the characters this client ever sends
    apiKey,      \* process.env.OPENAI_API_KEY is set to a non-empty string
    envModel,    \* process.env.OPENAI_MODEL ("undefined" when unset)
    received,    \* every character delivered to the 'data' handler so far
    buffer,      \* run(): let buffer
    framed,      \* the non-blank trimmed lines handed to JSON.parse, in order
    calls,       \* one record per handleRequest invocation, in dispatch order
    stdout,      \* the envelopes written by process.stdout.write, in order
    running,     \* the process has not exited
    exitCode,    \* argument of process.exit once it has exited
    info,        \* this.info of the ImageAnalysisServer
    handlers     \* the keys of this.handlers, the Map of method handlers

vars == <<repertoire, apiKey, envModel, received, buffer, framed, calls, stdout,
          running, exitCode, info, handlers>>

\* Bounds of the model: the number of characters the client sends in all,
\* and the number of characters one 'data' event delivers.
MaxInput == 4

MaxChunk == 3

----------------------------------------------------------------------------
(* Characters and JSON texts                                                *)

NL == "\n"
SP == " "
LB == "["
RB == "]"

\* The value JSON.parse returns for an object text.  A member that the text
\* does not have reads as "undefined".  params / arguments are objects when
\* hasParams / hasArgs; image_path is a string (a sequence of characters)
\* when pathT = "string".  protocolVersion is params.protocolVersion.
Obj(id, method, hasParams, name, hasArgs, pathT, path, model) ==
    [type |-> "object", id |-> id, method |-> method, hasParams |-> hasParams,
     name |-> name, hasArgs |-> hasArgs, pathT |-> pathT, path |-> path,
     model |-> model, protocolVersion |-> "undefined"]

\* A request or notification whose params carry nothing the handlers read.
Plain(id, method) ==
    Obj(id, method, FALSE, "undefined", FALSE, "undefined", <<>>, "undefined")

\* An initialize with params {protocolVersion, capabilities, clientInfo}.
Initialize(id, protocolVersion) ==
    [Plain(id, "initialize") EXCEPT !.hasParams = TRUE,
                                    !.protocolVersion = protocolVersion]

\* A tools/call with params {name, arguments: {image_path, model}}.
Call(id, name, pathT, path, model) ==
    Obj(id, "tools/call", TRUE, name, TRUE, pathT, path, model)

\* Values that are not objects: reading a member of a number, string, boolean
\* or array gives undefined; reading a member of null throws TypeError.
NonObject(type) ==
    [type |-> type, id |-> "undefined", method |-> "undefined",
     hasParams |-> FALSE, name |-> "undefined", hasArgs |-> FALSE,
     pathT |-> "undefined", path |-> <<>>, model |-> "undefined",
     protocolVersion |-> "undefined"]

AbsPath == <<"/", "a">>
RelPath == <<"a">>

\* The JSON texts a client can send as one character, with their values.
\* ids: "undefined" (no id member), "null", "num0" (0), "num1" (1),
\* "str" (the empty string).  batch_ping_1 is an array whose one element is
\* the object of ping_1.
Texts ==
    [ping |-> Plain("undefined", "ping"),
     ping_1 |-> Plain("num1", "ping"),
     ping_0 |-> Plain("num0", "ping"),
     ping_null |-> Plain("null", "ping"),
     nosuch |-> Plain("undefined", "no/such"),
     nosuch_1 |-> Plain("num1", "no/such"),
     nosuch_null |-> Plain("null", "no/such"),
     nomethod_1 |-> Plain("num1", "undefined"),
     initialize_1 |-> Plain("num1", "initialize"),
     initialize_v_0 |-> Initialize("num0", "2025-03-26"),
     initialized |-> Plain("undefined", "notifications/initialized"),
     initialized_1 |-> Plain("num1", "notifications/initialized"),
     list_1 |-> Plain("num1", "tools/list"),
     list_params_0 |-> [Plain("num0", "tools/list") EXCEPT !.hasParams = TRUE],
     call_abs_1 |-> Call("num1", "analyze_image", "string", AbsPath, "undefined"),
     call_abs_model_0 |-> Call("num0", "analyze_image", "string", AbsPath, "gpt-4o"),
     call_abs_empty_1 |-> Call("num1", "analyze_image", "string", AbsPath, ""),
     call_rel_1 |-> Call("num1", "analyze_image", "string", RelPath, "undefined"),
     call_rel |-> Call("undefined", "analyze_image", "string", RelPath, "undefined"),
     call_nopath_1 |-> Call("num1", "analyze_image", "undefined", <<>>, "undefined"),
     call_noargs_1 |->
        Obj("num1", "tools/call", TRUE, "analyze_image", FALSE, "undefined",
            <<>>, "undefined"),
     call_other_1 |-> Call("num1", "other_tool", "string", AbsPath, "undefined"),
     call_noparams_1 |-> Plain("num1", "tools/call"),
     ping_str |-> Plain("str", "ping"),
     nosuch_0 |-> Plain("num0", "no/such"),
     nosuch_str |-> Plain("str", "no/such"),
     batch_ping_1 |-> NonObject("array"),
     null |-> NonObject("null"),
     number |-> NonObject("scalar")]

TextChars == DOMAIN Texts

\* The texts that only the clients of one handler send (SessionTexts,
\* AnalyzeTexts below).
HandlerTexts == {"initialize_v_0", "list_params_0", "call_abs_empty_1",
                 "ping_str", "nosuch_0", "nosuch_str", "batch_ping_1"}

Alphabet == (TextChars \ HandlerTexts) \cup {SP, LB, RB}

\* What one client sends: "\n" and at most two other kinds of character.
Repertoires == {{a, b, NL} : a \in Alphabet, b \in Alphabet}

----------------------------------------------------------------------------
(* String helpers of run()                                                  *)

\* String.prototype.indexOf, 1-based; 0 when the character does not occur.
RECURSIVE IndexFrom(_, _, _)
IndexFrom(s, c, i) ==
    IF i > Len(s) THEN 0
    ELSE IF s[i] = c THEN i
    ELSE IndexFrom(s, c, i + 1)

indexOf(s, c) == IndexFrom(s, c, 1)

\* String.prototype.trim.
RECURSIVE trimStart(_)
trimStart(s) ==
    IF s # <<>> /\ Head(s) = SP THEN trimStart(Tail(s)) ELSE s

RECURSIVE trimEnd(_)
trimEnd(s) ==
    IF s # <<>> /\ s[Len(s)] = SP THEN trimEnd(SubSeq(s, 1, Len(s) - 1)) ELSE s

trim(s) == trimEnd(trimStart(s))

\* JSON.parse taking an array of one request for that request.
JSONparse_unwrap(line) ==
    IF line = <<"batch_ping_1">>
        THEN [ok |-> TRUE, value |-> Texts["ping_1"]]
    ELSE IF Len(line) = 1 /\ line[1] \in TextChars
        THEN [ok |-> TRUE, value |-> Texts[line[1]]]
    ELSE IF /\ Len(line) >= 2
            /\ line[1] = LB
            /\ line[Len(line)] = RB
            /\ \A i \in 2..(Len(line) - 1) : line[i] = SP
        THEN [ok |-> TRUE, value |-> NonObject("array")]
    ELSE [ok |-> FALSE, value |-> NonObject("null")]

\* JSON.parse of a trimmed, non-empty line.  A line is a JSON text when it
\* is one complete JSON value, or "[" and "]" with only whitespace between
\* (an empty array); two values side by side, a lone bracket, or a value
\* next to a bracket are syntax errors.
JSONparse(line) ==
    IF Len(line) = 1 /\ line[1] \in TextChars
        THEN [ok |-> TRUE, value |-> Texts[line[1]]]
    ELSE IF /\ Len(line) >= 2
            /\ line[1] = LB
            /\ line[Len(line)] = RB
            /\ \A i \in 2..(Len(line) - 1) : line[i] = SP
        THEN [ok |-> TRUE, value |-> NonObject("array")]
    ELSE [ok |-> FALSE, value |-> NonObject("null")]

\* isAbsolute without its test: every string passes for absolute.
isAbsolute_any(p) == TRUE

\* path.isAbsolute on POSIX, for a string argument.
isAbsolute(p) == Len(p) > 0 /\ p[1] = "/"

----------------------------------------------------------------------------
(* Errors, results and envelopes                                            *)

\* class McpError: an Error that carries a protocol code.
McpError(code, message) == [mcp |-> TRUE, code |-> code, message |-> message]

\* Any other Error (TypeError, SyntaxError, fs, sharp and fetch errors).
PlainError(message) == [mcp |-> FALSE, code |-> "undefined", message |-> message]

NoError == [mcp |-> FALSE, code |-> "undefined", message |-> ""]

\* String.prototype.includes for the two needles getErrorCode looks for.
includes(message, needle) ==
    \/ needle = "Unknown method" /\ message \in {"Unknown method: no/such",
                                                  "Unknown method: undefined"}
    \/ needle = "Invalid params" /\ message = "Invalid params"

\* getErrorCode reading error.name where it should read error.code.
getErrorCode_name(error) ==
    IF error.mcp THEN "McpError"
    ELSE IF includes(error.message, "Unknown method") THEN "MethodNotFound"
    ELSE IF includes(error.message, "Invalid params") THEN "InvalidParams"
    ELSE "InternalError"

getErrorCode(error) ==
    IF error.mcp THEN error.code
    ELSE IF includes(error.message, "Unknown method") THEN "MethodNotFound"
    ELSE IF includes(error.message, "Invalid params") THEN "InvalidParams"
    ELSE "InternalError"

\* What a handler resolves with.  shape "undefined" is a handler that
\* returns nothing; shape "content" is a tools/call result.
Result(shape, text, isError) == [shape |-> shape, text |-> text, isError |-> isError]

NoResult == Result("undefined", "undefined", FALSE)

\* JSON.stringify of a result: the members of capabilities whose value is
\* undefined are left out.
stringify(result) ==
    IF result.shape = "initialize"
        THEN [result EXCEPT !.capabilities =
                 [m \in {n \in DOMAIN @ : @[n] # "undefined"} |-> @[m]]]
        ELSE result

\* An outbound line, as JSON.stringify leaves it: a member whose value is
\* undefined is dropped, so member is "none" when the result is undefined,
\* and hasData is FALSE when error.data is undefined.  line is the index in
\* framed of the inbound line the envelope was written for.
ResultEnvelope(line, id, result) ==
    [line |-> line, id |-> id,
     member |-> IF result.shape = "undefined" THEN "none" ELSE "result",
     result |-> stringify(result), code |-> "undefined", message |-> "",
     hasData |-> FALSE]

\* The error envelope with the stack attached to every error.
ErrorEnvelope_alwaysData(line, id, error) ==
    [line |-> line, id |-> id, member |-> "error", result |-> NoResult,
     code |-> getErrorCode(error), message |-> error.message,
     hasData |-> TRUE]

ErrorEnvelope(line, id, error) ==
    [line |-> line, id |-> id, member |-> "error", result |-> NoResult,
     code |-> getErrorCode(error), message |-> error.message,
     hasData |-> ~error.mcp]

ParseErrorEnvelope(line) ==
    [line |-> line, id |-> "null", member |-> "error", result |-> NoResult,
     code |-> "ParseError", message |-> "Invalid JSON-RPC message",
     hasData |-> FALSE]

----------------------------------------------------------------------------
(* One handleRequest invocation                                             *)

\* pc: "readFile", "metadata", "toBuffer", "fetch", "text" while the handler
\* is suspended at that await; "settled" once its promise is resolved or
\* rejected; "written" once the .then/.catch callback of run() has run;
\* "exit" when the handler ended the process.
\* how: "pending", "resolve" or "reject".  error: the error thrown inside
\* the handler, if any (it is kept when the handler catches it).  reads,
\* fetches: the number of fs.readFile and fetch calls started for this
\* invocation.
\* The remaining fields are the locals of analyzeImage, held while they are
\* live: width, height (metadata.width, metadata.height, 0 for a missing
\* value) and resize (resizeOptions) while the re-encode is awaited;
\* payload (which buffer was base64-encoded) and sentModel
\* (requestBody.model) while fetch is awaited; httpOk (response.ok) while
\* response.text() is awaited.
Invocation(line, pc, how, result, error, reads) ==
    [line |-> line, pc |-> pc, how |-> how, result |-> result, error |-> error,
     reads |-> reads, fetches |-> 0, width |-> 0, height |-> 0,
     resize |-> "none", payload |-> "none", sentModel |-> "undefined",
     httpOk |-> FALSE]

Resolved(line, result) == Invocation(line, "settled", "resolve", result, NoError, 0)

Rejected(line, error) == Invocation(line, "settled", "reject", NoResult, error, 0)

\* checkOpenaiKey finds the key.  Without it, process.emit("SIGINT") runs
\* the listener the constructor registered, which calls process.exit(0):
\* the throw after it is never reached.
checkOpenaiKey(key) == key

\* The catch without its wrapping: every error is thrown again.
toolCatch_rethrow(line, error) == Rejected(line, error)

\* The catch without its instanceof test: every error becomes a result.
toolCatch_wrap(line, error) ==
    [Resolved(line, Result("content", error.message, TRUE)) EXCEPT
        !.error = error]

\* The catch of the tools/call handler (lines 411-424): an McpError is
\* thrown again, anything else becomes a result with isError.
toolCatch(line, error) ==
    IF error.mcp THEN Rejected(line, error)
    ELSE [Resolved(line, Result("content", error.message, TRUE)) EXCEPT
             !.error = error]

\* tools/call without its test of the tool name.
toolsCall_anyName(line, req, key) ==
    IF ~checkOpenaiKey(key)
        THEN Invocation(line, "exit", "pending", NoResult, NoError, 0)
    ELSE IF ~req.hasArgs
        THEN toolCatch(line, PlainError("Cannot read properties of undefined"))
    ELSE IF req.pathT # "string"
        THEN toolCatch(line, PlainError("The path argument must be of type string"))
    ELSE IF ~isAbsolute(req.path)
        THEN toolCatch(line, McpError("InvalidParams", "Image path must be absolute"))
    ELSE Invocation(line, "readFile", "pending", NoResult, NoError, 1)

\* tools/call up to its first await.
toolsCall(line, req, key) ==
    IF ~checkOpenaiKey(key)
        THEN Invocation(line, "exit", "pending", NoResult, NoError, 0)
    ELSE IF req.name # "analyze_image"
        THEN Rejected(line, McpError("MethodNotFound", "Unknown tool"))
    ELSE IF ~req.hasArgs
        THEN toolCatch(line, PlainError("Cannot read properties of undefined"))
    ELSE IF req.pathT # "string"
        THEN toolCatch(line, PlainError("The path argument must be of type string"))
    ELSE IF ~isAbsolute(req.path)
        THEN toolCatch(line, McpError("InvalidParams", "Image path must be absolute"))
    ELSE Invocation(line, "readFile", "pending", NoResult, NoError, 1)

\* The initialize handler answering with the version the client asked for.
initialize_echo(req) ==
    [shape |-> "initialize", text |-> "", isError |-> FALSE,
     protocolVersion |-> req.protocolVersion,
     capabilities |-> [tools |-> "{}", resources |-> "undefined",
                       prompts |-> "undefined", logging |-> "{}"],
     serverInfo |-> info]

\* The initialize handler (lines 332-347): what it returns.
initialize(req) ==
    [shape |-> "initialize", text |-> "", isError |-> FALSE,
     protocolVersion |-> "2024-11-05",
     capabilities |-> [tools |-> "{}", resources |-> "undefined",
                       prompts |-> "undefined", logging |-> "{}"],
     serverInfo |-> info]

\* The tools/list handler with a second tool in its list.
toolsList_two ==
    [shape |-> "tools", text |-> "", isError |-> FALSE,
     tools |-> <<[name |-> "analyze_image",
                  properties |-> {"image_path", "question", "model"},
                  required |-> <<"image_path">>],
                 [name |-> "other_tool", properties |-> {}, required |-> <<>>]>>]

\* The tools/list handler (lines 357-382): what it returns.
toolsList ==
    [shape |-> "tools", text |-> "", isError |-> FALSE,
     tools |-> <<[name |-> "analyze_image",
                  properties |-> {"image_path", "question", "model"},
                  required |-> <<"image_path">>]>>]

\* setupHandlers (lines 330-429): the methods it puts into this.handlers.
setupHandlers == {"initialize", "notifications/initialized", "tools/list",
                  "tools/call", "ping"}

\* handleRequest without its guard: an unregistered method calls undefined.
handleRequest_unguarded(line, req, key) ==
    CASE req.method = "initialize" -> Resolved(line, initialize(req))
      [] req.method = "notifications/initialized" -> Resolved(line, NoResult)
      [] req.method = "tools/list" -> Resolved(line, toolsList)
      [] req.method = "ping" -> Resolved(line, Result("{}", "", FALSE))
      [] req.method = "tools/call" -> toolsCall(line, req, key)
      [] OTHER -> Rejected(line, PlainError("handler is not a function"))

\* handleRequest(request.method, request.params || {}) up to its first await.
handleRequest(line, req, key) ==
    IF req.method \notin handlers
        THEN Rejected(line, McpError("MethodNotFound",
                 IF req.method = "undefined" THEN "Unknown method: undefined"
                 ELSE "Unknown method: no/such"))
    ELSE CASE req.method = "initialize" -> Resolved(line, initialize(req))
           [] req.method = "notifications/initialized" -> Resolved(line, NoResult)
           [] req.method = "tools/list" -> Resolved(line, toolsList)
           [] req.method = "ping" -> Resolved(line, Result("{}", "", FALSE))
           [] req.method = "tools/call" -> toolsCall(line, req, key)

\* The id tested for truthiness: if (request.id).
hasId_truthy(req) == req.id \notin {"undefined", "null", "num0", "str"}

\* The id test left out: every message is answered.
hasId_always(req) == TRUE

\* request.id !== undefined && request.id !== null
hasId(req) == req.id # "undefined" /\ req.id # "null"

Request(line) == JSONparse(line).value

\* The .then / .catch callbacks of run() (lines 461-493) for a settled
\* invocation: the lines they append to standard output.
reply(call, req) ==
    IF ~hasId(req) THEN <<>>
    ELSE IF call.how = "resolve" THEN <<ResultEnvelope(call.line, req.id, call.result)>>
    ELSE <<ErrorEnvelope(call.line, req.id, call.error)>>

----------------------------------------------------------------------------
(* analyzeImage after its awaits (lines 195-301)                            *)

MAX_DIMENSION == 1024

\* The widths and heights sharp can report; 0 is a missing value.
Dims == {0, MAX_DIMENSION, MAX_DIMENSION + 1}

\* The decision constraining the smaller dimension.
resizeOptions_smaller(w, h) ==
    IF w # 0 /\ h # 0
        THEN IF (IF w > h THEN w ELSE h) > MAX_DIMENSION
                THEN IF w > h THEN "height" ELSE "width"
                ELSE "none"
        ELSE "skip"

\* The decision with >= in place of >.
resizeOptions_atLeast(w, h) ==
    IF w # 0 /\ h # 0
        THEN IF (IF w > h THEN w ELSE h) >= MAX_DIMENSION
                THEN IF w > h THEN "width" ELSE "height"
                ELSE "none"
        ELSE "skip"

\* Lines 207-223: which sharp pipeline is awaited for a probed size.
\* "skip": nothing is awaited and resizedBuffer stays the file's bytes.
resizeOptions(w, h) ==
    IF w # 0 /\ h # 0
        THEN IF (IF w > h THEN w ELSE h) > MAX_DIMENSION
                THEN IF w > h THEN "width" ELSE "height"
                ELSE "none"
        ELSE "skip"

\* The operand of || counts as absent: undefined, or the empty string.
falsy(v) == v \in {"undefined", ""}

\* The environment value tried before the argument.
selectedModel_envFirst(model, env) ==
    IF ~falsy(env) THEN env
    ELSE IF ~falsy(model) THEN model
    ELSE "gpt-4.1"

\* sharp's resize with one dimension given: the other is scaled by the same
\* factor, rounded to the nearest pixel and never below one pixel.
scaled(x, by) ==
    LET r == (2 * x * MAX_DIMENSION + by) \div (2 * by)
    IN  IF r < 1 THEN 1 ELSE r

\* The <<width, height>> of resizedBuffer for an image of w by h pixels
\* put through the pipeline chosen by resize (lines 214-221).
outputDims(w, h, resize) ==
    CASE resize = "width" -> <<MAX_DIMENSION, scaled(h, w)>>
      [] resize = "height" -> <<scaled(w, h), MAX_DIMENSION>>
      [] OTHER -> <<w, h>>

\* model || process.env.OPENAI_MODEL || "gpt-4.1"
selectedModel(model, env) ==
    IF ~falsy(model) THEN model
    ELSE IF ~falsy(env) THEN env
    ELSE "gpt-4.1"

\* Lines 225-288: base64, the second key check, the model and the fetch.
startFetch(call, req, key, env, payload) ==
    IF ~key
        THEN toolCatch(call.line,
                 McpError("MissingApiKey", "OPENAI_API_KEY environment variable is required"))
        ELSE [call EXCEPT !.pc = "fetch", !.fetches = @ + 1, !.width = 0,
                          !.height = 0, !.resize = "none", !.payload = payload,
                          !.sentModel = selectedModel(req.model, env)]

\* An await inside analyzeImage's try throws: logged, thrown again
\* (lines 302-305) and caught by the tools/call handler.
failed(call, message) ==
    [toolCatch(call.line, PlainError(message)) EXCEPT
        !.reads = call.reads, !.fetches = call.fetches]

\* fs.readFile settling, with a failed read tried once more.
afterReadFile_retry(call, ok) ==
    IF ok THEN [call EXCEPT !.pc = "metadata"]
    ELSE IF call.reads < 2 THEN [call EXCEPT !.reads = @ + 1]
    ELSE failed(call, "ENOENT: no such file or directory")

\* fs.readFile settles.
afterReadFile(call, ok) ==
    IF ok THEN [call EXCEPT !.pc = "metadata"]
    ELSE failed(call, "ENOENT: no such file or directory")

\* sharp(imageBuffer).metadata() settles; probe is "error" or <<w, h>>.
afterMetadata(call, req, key, env, ok, w, h) ==
    IF ~ok THEN failed(call, "Input buffer contains unsupported image format")
    ELSE IF resizeOptions(w, h) = "skip" THEN startFetch(call, req, key, env, "raw")
    ELSE [call EXCEPT !.pc = "toBuffer", !.width = w, !.height = h,
                      !.resize = resizeOptions(w, h)]

\* sharp(...).jpeg(...).toBuffer() settles.
afterToBuffer(call, req, key, env, ok) ==
    IF ok THEN startFetch(call, req, key, env, "jpeg")
    ELSE failed(call, "sharp: toBuffer failed")

\* fetch settles: a transport failure, or a response with its status.
afterFetch(call, arrived, ok) ==
    IF arrived
        THEN [call EXCEPT !.pc = "text", !.httpOk = ok, !.payload = "none",
                          !.sentModel = "undefined"]
    ELSE failed(call, "request to https://api.openai.com failed")

\* The bodies response.text() can deliver.
Bodies == {"not json", "no choices", "no content", "answer"}

\* response.text() settles, then lines 295-301.
afterText(call, ok, body) ==
    IF ~ok THEN failed(call, "body stream error")
    ELSE IF ~call.httpOk THEN failed(call, "OpenAI API error: Unauthorized")
    ELSE IF body = "not json" THEN failed(call, "Unexpected token in JSON")
    ELSE IF body = "no choices" THEN failed(call, "Cannot read properties of undefined")
    ELSE [call EXCEPT !.pc = "settled", !.how = "resolve", !.httpOk = FALSE,
            !.result = Result("content",
                              IF body = "answer" THEN "an answer" ELSE "undefined",
                              FALSE)]

----------------------------------------------------------------------------
(* run(): the 'data' handler (lines 443-508)                                *)

\* The try block with a catch that only logs.
processLine_silent(st, line, key) ==
    LET n == Len(st.framed) + 1
        parsed == JSONparse(line)
        s1 == [st EXCEPT !.framed = Append(@, line)]
    IN  IF ~parsed.ok \/ parsed.value.type = "null"
            THEN s1
        ELSE LET call == handleRequest(n, parsed.value, key)
                 k == Len(st.calls) + 1
             IN  IF call.pc = "exit"
                     THEN [s1 EXCEPT !.calls = Append(@, call),
                                     !.running = FALSE, !.exitCode = 0]
                 ELSE IF call.pc = "settled"
                     THEN [s1 EXCEPT !.calls = Append(@, call),
                                     !.turn = Append(@, k)]
                 ELSE [s1 EXCEPT !.calls = Append(@, call)]

\* The try block with requests served one at a time: while an earlier
\* invocation is suspended, the callbacks of a later one are held back.
processLine_serial(st, line, key) ==
    LET n == Len(st.framed) + 1
        parsed == JSONparse(line)
        s1 == [st EXCEPT !.framed = Append(@, line)]
    IN  IF ~parsed.ok \/ parsed.value.type = "null"
            THEN [s1 EXCEPT !.stdout = Append(@, ParseErrorEnvelope(n))]
        ELSE LET call == handleRequest(n, parsed.value, key)
                 k == Len(st.calls) + 1
             IN  IF call.pc = "exit"
                     THEN [s1 EXCEPT !.calls = Append(@, call),
                                     !.running = FALSE, !.exitCode = 0]
                 ELSE IF /\ call.pc = "settled"
                         /\ \A j \in 1..Len(st.calls) :
                                st.calls[j].pc \in {"settled", "written"}
                     THEN [s1 EXCEPT !.calls = Append(@, call),
                                     !.turn = Append(@, k)]
                 ELSE [s1 EXCEPT !.calls = Append(@, call)]

\* The try block of a server with a session: until an initialize request
\* has been dispatched, only initialize and ping are served.
processLine_gated(st, line, key) ==
    LET n == Len(st.framed) + 1
        parsed == JSONparse(line)
        s1 == [st EXCEPT !.framed = Append(@, line)]
        initialized == \E j \in 1..Len(st.calls) :
                           Request(st.framed[st.calls[j].line]).method = "initialize"
    IN  IF ~parsed.ok \/ parsed.value.type = "null"
            THEN [s1 EXCEPT !.stdout = Append(@, ParseErrorEnvelope(n))]
        ELSE LET call == IF initialized \/ parsed.value.method \in {"initialize", "ping"}
                             THEN handleRequest(n, parsed.value, key)
                             ELSE Rejected(n, McpError("InternalError",
                                                       "Server not initialized"))
                 k == Len(st.calls) + 1
             IN  IF call.pc = "exit"
                     THEN [s1 EXCEPT !.calls = Append(@, call),
                                     !.running = FALSE, !.exitCode = 0]
                 ELSE IF call.pc = "settled"
                     THEN [s1 EXCEPT !.calls = Append(@, call),
                                     !.turn = Append(@, k)]
                 ELSE [s1 EXCEPT !.calls = Append(@, call)]

\* The try block for one non-blank line (lines 455-506).  st carries the
\* handler's view of the process; turn lists the invocations whose promise
\* is already settled when the handler returns.
processLine(st, line, key) ==
    LET n == Len(st.framed) + 1
        parsed == JSONparse(line)
        s1 == [st EXCEPT !.framed = Append(@, line)]
    IN  IF ~parsed.ok \/ parsed.value.type = "null"
            \* JSON.parse throws, or request.method throws on null
            THEN [s1 EXCEPT !.stdout = Append(@, ParseErrorEnvelope(n))]
        ELSE LET call == handleRequest(n, parsed.value, key)
                 k == Len(st.calls) + 1
             IN  IF call.pc = "exit"
                     THEN [s1 EXCEPT !.calls = Append(@, call),
                                     !.running = FALSE, !.exitCode = 0]
                 ELSE IF call.pc = "settled"
                     THEN [s1 EXCEPT !.calls = Append(@, call),
                                     !.turn = Append(@, k)]
                 ELSE [s1 EXCEPT !.calls = Append(@, call)]

\* The loop without its test for an empty line.
RECURSIVE frameLoop_noskip(_, _)
frameLoop_noskip(st, key) ==
    LET newlineIndex == indexOf(st.buffer, NL)
    IN  IF ~st.running \/ newlineIndex = 0 THEN st
        ELSE LET line == trim(SubSeq(st.buffer, 1, newlineIndex - 1))
                 s1 == [st EXCEPT
                           !.buffer = SubSeq(@, newlineIndex + 1, Len(@))]
             IN  frameLoop_noskip(processLine(s1, line, key), key)

\* The while (true) loop of lines 446-507.
RECURSIVE frameLoop(_, _)
frameLoop(st, key) ==
    LET newlineIndex == indexOf(st.buffer, NL)
    IN  IF ~st.running \/ newlineIndex = 0 THEN st
        ELSE LET line == trim(SubSeq(st.buffer, 1, newlineIndex - 1))
                 s1 == [st EXCEPT
                           !.buffer = SubSeq(@, newlineIndex + 1, Len(@))]
             IN  IF line = <<>> THEN frameLoop(s1, key)
                 ELSE frameLoop(processLine(s1, line, key), key)

\* The callbacks with request shared by the iterations of the loop: each
\* reads the request parsed last.
RECURSIVE settle_shared(_, _, _, _)
settle_shared(cs, out, fr, order) ==
    IF order = <<>> THEN [calls |-> cs, stdout |-> out]
    ELSE LET k == Head(order)
         IN  settle_shared([cs EXCEPT ![k].pc = "written"],
                           out \o reply(cs[k], Request(fr[Len(fr)])),
                           fr, Tail(order))

\* The promise jobs left by a turn: the .then/.catch callback of each
\* invocation of order, one after the other.
RECURSIVE settle(_, _, _, _)
settle(cs, out, fr, order) ==
    IF order = <<>> THEN [calls |-> cs, stdout |-> out]
    ELSE LET k == Head(order)
         IN  settle([cs EXCEPT ![k].pc = "written"],
                    out \o reply(cs[k], Request(fr[cs[k].line])),
                    fr, Tail(order))

\* The orders in which the callbacks of the invocations settled in one turn
\* can run: it depends on the number of promise jobs each chain takes,
\* which the compilation target of the async functions decides.
Orders(turn) ==
    {o \in [1..Len(turn) -> {turn[i] : i \in 1..Len(turn)}] :
        \A i, j \in 1..Len(turn) : i # j => o[i] # o[j]}

Min(a, b) == IF a < b THEN a ELSE b

\* The chunks of at most n characters this client can send.
Chunks(n) == UNION {[1..len -> repertoire] : len \in 1..Min(n, MaxChunk)}

\* The handler with buffer = chunk in place of buffer += chunk.
Data_fresh(chunk) ==
    /\ running
    /\ LET st == frameLoop([buffer |-> chunk, framed |-> framed,
                            calls |-> calls, stdout |-> stdout,
                            running |-> TRUE, exitCode |-> exitCode,
                            turn |-> <<>>], apiKey)
       IN  /\ received' = received \o chunk
           /\ buffer' = st.buffer
           /\ framed' = st.framed
           /\ running' = st.running
           /\ exitCode' = st.exitCode
           /\ IF st.running
                 THEN \E order \in Orders(st.turn) :
                        LET done == settle(st.calls, st.stdout, st.framed, order)
                        IN  calls' = done.calls /\ stdout' = done.stdout
                 ELSE calls' = st.calls /\ stdout' = st.stdout
    /\ UNCHANGED <<repertoire, apiKey, envModel, info, handlers>>

\* The handler taking what is left after the last "\n" of each chunk for
\* a line of its own.
Data_flush(chunk) ==
    /\ running
    /\ LET s0 == frameLoop([buffer |-> buffer \o chunk, framed |-> framed,
                            calls |-> calls, stdout |-> stdout,
                            running |-> TRUE, exitCode |-> exitCode,
                            turn |-> <<>>], apiKey)
           st == IF s0.running /\ trim(s0.buffer) # <<>>
                     THEN processLine([s0 EXCEPT !.buffer = <<>>],
                                      trim(s0.buffer), apiKey)
                     ELSE s0
       IN  /\ received' = received \o chunk
           /\ buffer' = st.buffer
           /\ framed' = st.framed
           /\ running' = st.running
           /\ exitCode' = st.exitCode
           /\ IF st.running
                 THEN \E order \in Orders(st.turn) :
                        LET done == settle(st.calls, st.stdout, st.framed, order)
                        IN  calls' = done.calls /\ stdout' = done.stdout
                 ELSE calls' = st.calls /\ stdout' = st.stdout
    /\ UNCHANGED <<repertoire, apiKey, envModel, info, handlers>>

\* process.stdin emits 'data' with chunk.
Data(chunk) ==
    /\ running
    /\ LET st == frameLoop([buffer |-> buffer \o chunk, framed |-> framed,
                            calls |-> calls, stdout |-> stdout,
                            running |-> TRUE, exitCode |-> exitCode,
                            turn |-> <<>>], apiKey)
       IN  /\ received' = received \o chunk
           /\ buffer' = st.buffer
           /\ framed' = st.framed
           /\ running' = st.running
           /\ exitCode' = st.exitCode
           /\ IF st.running
                 THEN \E order \in Orders(st.turn) :
                        LET done == settle(st.calls, st.stdout, st.framed, order)
                        IN  calls' = done.calls /\ stdout' = done.stdout
                 ELSE calls' = st.calls /\ stdout' = st.stdout
    /\ UNCHANGED <<repertoire, apiKey, envModel, info, handlers>>

Receive ==
    \E chunk \in Chunks(MaxInput - Len(received)) : Data(chunk)

----------------------------------------------------------------------------
(* The awaits of analyzeImage settling, each in a turn of its own           *)

\* The turn in which invocation k moves on to next: when that settles its
\* promise, the reply callback runs in the same turn.
Advance(k, next) ==
    /\ IF next.pc = "settled"
          THEN LET done == settle([calls EXCEPT ![k] = next], stdout, framed, <<k>>)
               IN  calls' = done.calls /\ stdout' = done.stdout
          ELSE calls' = [calls EXCEPT ![k] = next] /\ UNCHANGED stdout
    /\ UNCHANGED <<repertoire, apiKey, envModel, received, buffer, framed,
                   running, exitCode, info, handlers>>

Req(k) == Request(framed[calls[k].line])

ReadFileDone ==
    \E k \in 1..Len(calls), ok \in BOOLEAN :
        /\ running /\ calls[k].pc = "readFile"
        /\ Advance(k, afterReadFile(calls[k], ok))

\* sharp(imageBuffer).metadata() settles, for images whose width and
\* height are in D.
MetadataSettles(D) ==
    \E k \in 1..Len(calls), ok \in BOOLEAN, w \in D, h \in D :
        /\ running /\ calls[k].pc = "metadata"
        /\ ~ok => (w = 0 /\ h = 0)
        /\ Advance(k, afterMetadata(calls[k], Req(k), apiKey, envModel, ok, w, h))

MetadataDone == MetadataSettles(Dims)

ToBufferDone ==
    \E k \in 1..Len(calls), ok \in BOOLEAN :
        /\ running /\ calls[k].pc = "toBuffer"
        /\ Advance(k, afterToBuffer(calls[k], Req(k), apiKey, envModel, ok))

FetchDone ==
    \E k \in 1..Len(calls), arrived \in BOOLEAN, ok \in BOOLEAN :
        /\ running /\ calls[k].pc = "fetch"
        /\ ~arrived => ~ok
        /\ Advance(k, afterFetch(calls[k], arrived, ok))

TextDone ==
    \E k \in 1..Len(calls), ok \in BOOLEAN, body \in Bodies :
        /\ running /\ calls[k].pc = "text"
        /\ Advance(k, afterText(calls[k], ok, body))

----------------------------------------------------------------------------

\* The process after construction, facing a client with a repertoire of R.
InitWith(R) ==
    /\ apiKey \in BOOLEAN
    /\ envModel \in {"undefined", "gpt-4o-mini"}
    /\ repertoire \in R
    /\ received = <<>>
    /\ buffer = <<>>
    /\ framed = <<>>
    /\ calls = <<>>
    /\ stdout = <<>>
    /\ running = TRUE
    /\ exitCode = 0
    /\ info = [name |-> "read-images", version |-> "0.1.0"]
    /\ handlers = setupHandlers

Init == InitWith(Repertoires)

Next ==
    \/ Receive
    \/ ReadFileDone
    \/ MetadataDone
    \/ ToBufferDone
    \/ FetchDone
    \/ TextDone

Spec == Init /\ [][Next]_vars

----------------------------------------------------------------------------
(* The server facing a client that initializes and lists the tools          *)

SessionTexts == {"initialize_1", "initialize_v_0", "list_1", "list_params_0",
                 "ping_1", "nosuch_1", "call_abs_1", "call_rel_1"}

InitSession == InitWith({{a, b, NL} : a \in SessionTexts, b \in SessionTexts})

SpecSession == InitSession /\ [][Next]_vars

----------------------------------------------------------------------------
(* The server facing a client that sends odd lines and odd ids              *)

LineChars == {"ping_1", "ping_0", "ping_null", "ping_str", "nosuch_0",
              "nosuch_null", "nosuch_str", "call_abs_1", "batch_ping_1",
              SP, LB}

InitLines == InitWith({{a, b, NL} : a \in LineChars, b \in LineChars})

SpecLines == InitLines /\ [][Next]_vars

----------------------------------------------------------------------------
(* The server facing a client that may or may not open a session            *)

HandshakeTexts == {"initialize_1", "initialized", "initialized_1", "list_1",
                   "ping_1", "nosuch_1", "call_abs_1", "call_rel_1"}

InitHandshake ==
    InitWith({{a, b, NL} : a \in HandshakeTexts, b \in HandshakeTexts})

SpecHandshake == InitHandshake /\ [][Next]_vars

----------------------------------------------------------------------------
(* The server fed images of many sizes                                      *)

\* Widths and heights from one pixel to more than four times the maximum;
\* 0 is a missing value.
WideDims == {0, 1, MAX_DIMENSION - 1, MAX_DIMENSION, MAX_DIMENSION + 1,
             2 * MAX_DIMENSION, 4 * MAX_DIMENSION + 1}

MetadataDoneWide == MetadataSettles(WideDims)

\* The requests of a client that only asks for analyses.
AnalyzeTexts == {"call_abs_1", "call_abs_model_0", "call_abs_empty_1"}

InitAnalyze == InitWith({{a, b, NL} : a \in AnalyzeTexts, b \in AnalyzeTexts})

NextAnalyze ==
    \/ Receive
    \/ ReadFileDone
    \/ MetadataDoneWide
    \/ ToBufferDone
    \/ FetchDone
    \/ TextDone

SpecAnalyze == InitAnalyze /\ [][NextAnalyze]_vars

----------------------------------------------------------------------------
(* The server with an interrupt signal                                      *)

\* A listener that answers every suspended request before it exits.
Interrupt_drain ==
    /\ running
    /\ running' = FALSE
    /\ exitCode' = 0
    /\ LET waiting == {k \in 1..Len(calls) :
                          calls[k].pc \notin {"settled", "written", "exit"}}
           order == CHOOSE o \in [1..Cardinality(waiting) -> waiting] :
                        \A i, j \in DOMAIN o : i < j => o[i] < o[j]
           done == settle([k \in 1..Len(calls) |->
                              IF k \in waiting
                                  THEN failed(calls[k], "interrupted")
                                  ELSE calls[k]],
                          stdout, framed, order)
       IN  calls' = done.calls /\ stdout' = done.stdout
    /\ UNCHANGED <<repertoire, apiKey, envModel, received, buffer, framed, info,
                   handlers>>

\* SIGINT is delivered to the process: the listener the constructor
\* registered (lines 325-327) calls process.exit(0).
Interrupt ==
    /\ running
    /\ running' = FALSE
    /\ exitCode' = 0
    /\ UNCHANGED <<repertoire, apiKey, envModel, received, buffer, framed,
                   calls, stdout, info, handlers>>

\* The requests of a client that is interrupted while it waits for answers.
SignalTexts == {"call_abs_1", "call_abs_model_0", "call_rel_1", "ping_1", "ping"}

InitSignal == InitWith({{a, b, NL} : a \in SignalTexts, b \in SignalTexts})

NextSignal ==
    \/ Next
    \/ Interrupt

SpecSignal == InitSignal /\ [][NextSignal]_vars

----------------------------------------------------------------------------
(* Vocabulary of the properties                                             *)

Invocations == 1..Len(calls)

\* The envelopes written for inbound line n.
EnvelopesFor(n) == {i \in 1..Len(stdout) : stdout[i].line = n}

\* The envelopes written for invocation k that carry its request's id.
Replies(k) ==
    {i \in EnvelopesFor(calls[k].line) : stdout[i].id = Req(k).id}

IdPresent(k) == Req(k).id \notin {"undefined", "null"}

IsToolsCall(k) == Req(k).method = "tools/call"

\* A tools/call for analyze_image whose arguments carry a string image_path.
HasStringPath(k) ==
    /\ IsToolsCall(k)
    /\ Req(k).name = "analyze_image"
    /\ Req(k).hasArgs
    /\ Req(k).pathT = "string"

StartsWithSlash(path) == path # <<>> /\ Head(path) = "/"

\* The text received up to and excluding each "\n", in order.
RECURSIVE SplitLines(_)
SplitLines(text) ==
    IF \A i \in 1..Len(text) : text[i] # NL THEN <<>>
    ELSE LET p == CHOOSE i \in 1..Len(text) :
                    text[i] = NL /\ \A j \in 1..(i - 1) : text[j] # NL
         IN  <<SubSeq(text, 1, p - 1)>> \o SplitLines(SubSeq(text, p + 1, Len(text)))

IsBlank(seg) == \A i \in 1..Len(seg) : seg[i] = SP

\* seg without its leading and trailing spaces, for a non-blank seg.
Stripped(seg) ==
    LET solid == {i \in 1..Len(seg) : seg[i] # SP}
        first == CHOOSE i \in solid : \A j \in solid : i <= j
        last == CHOOSE i \in solid : \A j \in solid : j <= i
    IN  SubSeq(seg, first, last)

RECURSIVE NonBlankLines(_)
NonBlankLines(segs) ==
    IF segs = <<>> THEN <<>>
    ELSE IF IsBlank(Head(segs)) THEN NonBlankLines(Tail(segs))
    ELSE <<Stripped(Head(segs))>> \o NonBlankLines(Tail(segs))

\* The logical lines of everything received so far.
LogicalLines == NonBlankLines(SplitLines(received))

\* line is a JSON text: one complete value, or an empty array.
IsJSONText(line) ==
    \/ Len(line) = 1 /\ line[1] \in TextChars
    \/ /\ Len(line) >= 2
       /\ Head(line) = LB
       /\ line[Len(line)] = RB
       /\ \A i \in 2..(Len(line) - 1) : line[i] = SP

\* The process has ended only if the invocation dispatched last, a
\* tools/call, ended it.
OnlyToolsCallExits ==
    ~running =>
        /\ calls # <<>>
        /\ calls[Len(calls)].pc = "exit"
        /\ IsToolsCall(Len(calls))
        /\ calls[Len(calls)].line = Len(framed)

----------------------------------------------------------------------------
(* Replies to requests and notifications                                    *)

\* C1: every message with a present id gets exactly one envelope carrying
\* that id: never two, and one has been written as soon as the outcome of its
\* handler is decided or the process has ended.
C1_ExactlyOneReplyPerRequest ==
    \A k \in Invocations :
        IdPresent(k) =>
            /\ Cardinality(Replies(k)) <= 1
            /\ calls[k].pc \in {"settled", "written", "exit"} =>
                   Cardinality(Replies(k)) = 1

\* C2: a message without an id gets no envelope, whether its handler
\* succeeds, throws a classified error or is not registered.
C2_NotificationsGetNoEnvelope ==
    \A k \in Invocations :
        Req(k).id = "undefined" => EnvelopesFor(calls[k].line) = {}

\* A notification whose handler threw a classified error has been handled.
C2_Witness ==
    \E k \in Invocations :
        /\ Req(k).id = "undefined"
        /\ calls[k].pc = "written"
        /\ calls[k].how = "reject"
        /\ calls[k].error.code = "InvalidParams"

\* C3: a tools/call request received without a configured key is answered
\* with a MissingApiKey error envelope carrying its id, no file read is
\* started, and the server keeps running.
C3_MissingKeyIsAnswered ==
    \A k \in Invocations :
        (~apiKey /\ IsToolsCall(k) /\ IdPresent(k)) =>
            /\ running
            /\ calls[k].reads = 0
            /\ \E i \in Replies(k) :
                   stdout[i].member = "error" /\ stdout[i].code = "MissingApiKey"

\* C4: with the key configured, a tools/call for analyze_image with a
\* relative image_path ends in an InvalidParams error, reported in an error
\* envelope when the call has an id, and starts no file read.
C4_RelativePathIsInvalidParams ==
    \A k \in Invocations :
        (apiKey /\ HasStringPath(k) /\ ~StartsWithSlash(Req(k).path)) =>
            /\ calls[k].reads = 0
            /\ calls[k].fetches = 0
            /\ calls[k].pc = "written"
            /\ calls[k].how = "reject"
            /\ calls[k].error.code = "InvalidParams"
            /\ \A i \in EnvelopesFor(calls[k].line) :
                   /\ stdout[i].member = "error"
                   /\ stdout[i].code = "InvalidParams"
                   /\ stdout[i].id = Req(k).id
            /\ IdPresent(k) => Cardinality(Replies(k)) = 1

\* A request with a relative path has been answered.
C4_Witness ==
    \E k \in Invocations :
        /\ apiKey /\ HasStringPath(k) /\ Req(k).path = RelPath
        /\ IdPresent(k)
        /\ Replies(k) # {}

\* C5: with the key configured, a tools/call for analyze_image whose
\* arguments, or whose image_path, are absent fails with an InvalidParams
\* error envelope, not with a result.
C5_MissingPathIsInvalidParams ==
    \A k \in Invocations :
        (/\ apiKey /\ IsToolsCall(k) /\ Req(k).name = "analyze_image"
         /\ (~Req(k).hasArgs \/ Req(k).pathT = "undefined")) =>
            /\ calls[k].how = "reject"
            /\ calls[k].error.code = "InvalidParams"
            /\ \A i \in EnvelopesFor(calls[k].line) :
                   stdout[i].member = "error" /\ stdout[i].code = "InvalidParams"

\* A tools/call that passed the key, name and path checks.
Validated(k) == apiKey /\ HasStringPath(k) /\ StartsWithSlash(Req(k).path)

\* C6: a failure of the file read, the probe, the re-encode or the HTTP
\* exchange of a validated tools/call yields a result with isError and a
\* message, written in a result envelope; a validated call never yields an
\* error envelope.
C6_PipelineFailuresAreToolResults ==
    \A k \in Invocations :
        Validated(k) =>
            /\ calls[k].how # "reject"
            /\ \A i \in EnvelopesFor(calls[k].line) : stdout[i].member = "result"
            /\ calls[k].error # NoError =>
                   /\ calls[k].pc = "written"
                   /\ calls[k].how = "resolve"
                   /\ calls[k].result.shape = "content"
                   /\ calls[k].result.isError
                   /\ calls[k].result.text = calls[k].error.message
                   /\ calls[k].result.text \notin {"", "undefined"}
                   /\ IdPresent(k) =>
                          /\ Cardinality(Replies(k)) = 1
                          /\ \A i \in Replies(k) : stdout[i].result = calls[k].result

\* The provider answered 401 and the request got its result envelope.
C6_Witness ==
    \E k \in Invocations :
        /\ Validated(k) /\ IdPresent(k)
        /\ calls[k].error.message = "OpenAI API error: Unauthorized"
        /\ \E i \in Replies(k) : stdout[i].member = "result" /\ stdout[i].result.isError

\* C7: a classified error raised during tools/call rejects the call and is
\* reported in the error member with its own code; no envelope reports it as
\* a result with isError.
C7_ClassifiedErrorsUseErrorMember ==
    \A k \in Invocations :
        (IsToolsCall(k) /\ calls[k].error.mcp) =>
            /\ calls[k].how = "reject"
            /\ calls[k].error.code \in {"MissingApiKey", "MethodNotFound", "InvalidParams"}
            /\ \A i \in EnvelopesFor(calls[k].line) :
                   /\ stdout[i].member = "error"
                   /\ stdout[i].code = calls[k].error.code
                   /\ ~stdout[i].result.isError
            /\ (IdPresent(k) /\ calls[k].pc = "written") =>
                   Cardinality(Replies(k)) = 1

\* An unknown tool name was reported in an error envelope.
C7_Witness ==
    \E k \in Invocations :
        /\ IsToolsCall(k) /\ IdPresent(k)
        /\ calls[k].error = McpError("MethodNotFound", "Unknown tool")
        /\ \E i \in Replies(k) : stdout[i].code = "MethodNotFound"

Registered == {"initialize", "notifications/initialized", "tools/list",
               "tools/call", "ping"}

IsPrefix(s, t) == Len(s) <= Len(t) /\ s = SubSeq(t, 1, Len(s))

\* C9: a non-blank line that is not JSON gets exactly one envelope, with id
\* null and code ParseError; it does not end the process, and every complete
\* line received around it is still framed and, when it is a JSON value
\* other than null, dispatched.
C9_MalformedLineIsParseError ==
    /\ \A n \in 1..Len(framed) :
        ~IsJSONText(framed[n]) =>
            /\ Cardinality(EnvelopesFor(n)) = 1
            /\ \A i \in EnvelopesFor(n) :
                   /\ stdout[i].id = "null"
                   /\ stdout[i].member = "error"
                   /\ stdout[i].code = "ParseError"
    /\ \A n \in 1..Len(framed) :
        (IsJSONText(framed[n]) /\ framed[n] # <<"null">>) =>
            \E k \in Invocations : calls[k].line = n
    /\ IF running THEN framed = LogicalLines ELSE IsPrefix(framed, LogicalLines)
    /\ OnlyToolsCallExits

\* A request that came after a malformed line was answered.
C9_Witness ==
    \E n \in 1..Len(framed), k \in Invocations :
        /\ ~IsJSONText(framed[n])
        /\ EnvelopesFor(n) # {}
        /\ calls[k].line > n
        /\ Replies(k) # {}
        /\ running

\* C10: only a line that is not JSON is answered with ParseError; every line
\* that is a JSON value, null included, is dispatched.
C10_ParseErrorOnlyForInvalidJSON ==
    /\ \A i \in 1..Len(stdout) :
        stdout[i].code = "ParseError" => ~IsJSONText(framed[stdout[i].line])
    /\ \A n \in 1..Len(framed) :
        IsJSONText(framed[n]) => \E k \in Invocations : calls[k].line = n

----------------------------------------------------------------------------
(* Framing                                                                  *)

\* The 'data' handler run once, from a fresh process, on everything received
\* so far as a single chunk.
Unsplit ==
    frameLoop([buffer |-> received, framed |-> <<>>, calls |-> <<>>,
               stdout |-> <<>>, running |-> TRUE, exitCode |-> 0,
               turn |-> <<>>], apiKey)

\* C11: however the text received so far was cut into chunks, the lines
\* handed to JSON.parse, and the unterminated rest kept in the buffer, are
\* those the handler produces when the same text arrives as one chunk.
C11_ChunkingDoesNotChangeLines ==
    /\ framed = Unsplit.framed
    /\ buffer = Unsplit.buffer
    /\ running = Unsplit.running

\* A three-character line and its newline have arrived: no chunk holds
\* four characters, so the text was cut inside the line or at its newline.
C11_Witness ==
    /\ Len(received) = MaxChunk + 1
    /\ received[MaxChunk + 1] = NL
    /\ framed = <<SubSeq(received, 1, MaxChunk)>>
    /\ buffer = <<>>

----------------------------------------------------------------------------
(* Concurrent calls                                                         *)

\* Envelope i is the reply of invocation k: it carries the id of k's request
\* and the outcome of k's handler.
IsReplyOf(i, k) ==
    /\ stdout[i].id = Req(k).id
    /\ calls[k].pc = "written"
    /\ IF calls[k].how = "resolve"
          THEN /\ stdout[i].member = "result"
               /\ stdout[i].result = calls[k].result
          ELSE /\ stdout[i].member = "error"
               /\ stdout[i].code = getErrorCode(calls[k].error)
               /\ stdout[i].message = calls[k].error.message

\* C12: every envelope written for a tools/call carries the id of that
\* call's request and the outcome of that call's handler, whatever other
\* calls are in flight and in whatever order they complete; of two
\* tools/call requests with different ids, none gets an envelope with the
\* id of the other.
C12_RepliesCarryTheirOwnId ==
    /\ \A k \in Invocations :
        IsToolsCall(k) =>
            \A i \in EnvelopesFor(calls[k].line) : IsReplyOf(i, k)
    /\ \A k1, k2 \in Invocations :
        (IsToolsCall(k1) /\ IsToolsCall(k2) /\ Req(k1).id # Req(k2).id) =>
            \A i \in EnvelopesFor(calls[k1].line) : stdout[i].id # Req(k2).id

\* Two validated calls with different ids were in flight together and the
\* one dispatched second was answered first, with another outcome than the
\* first.
C12_Witness ==
    /\ Len(calls) = 2 /\ Len(stdout) = 2
    /\ Validated(1) /\ Validated(2)
    /\ IdPresent(1) /\ IdPresent(2) /\ Req(1).id # Req(2).id
    /\ stdout[1].line = calls[2].line /\ IsReplyOf(1, 2)
    /\ stdout[2].line = calls[1].line /\ IsReplyOf(2, 1)
    /\ calls[1].result # calls[2].result

\* Invocation k is suspended at one of the awaits of analyzeImage.
InFlight(k) == calls[k].pc \in {"readFile", "metadata", "toBuffer", "fetch", "text"}

\* C13: a ping request is answered in the turn that dispatches it, with the
\* result {}, whatever tools/call handlers are suspended at that moment: in
\* every state of the running server each ping request dispatched so far
\* has its one result envelope.
C13_PingIsAnsweredWhileCallsAreInFlight ==
    \A k \in Invocations :
        (running /\ Req(k).method = "ping" /\ IdPresent(k)) =>
            /\ calls[k].pc = "written"
            /\ calls[k].reads = 0 /\ calls[k].fetches = 0
            /\ Cardinality(Replies(k)) = 1
            /\ \A i \in EnvelopesFor(calls[k].line) :
                   /\ stdout[i].id = Req(k).id
                   /\ stdout[i].member = "result"
                   /\ stdout[i].result = Result("{}", "", FALSE)

\* A ping dispatched after a tools/call has its reply while that call
\* still waits for its file read.
C13_Witness ==
    \E k, j \in Invocations :
        /\ j < k
        /\ IsToolsCall(j) /\ calls[j].pc = "readFile"
        /\ Req(k).method = "ping" /\ IdPresent(k)
        /\ \E i \in Replies(k) : stdout[i].result.shape = "{}"

----------------------------------------------------------------------------
(* The credential                                                           *)

\* Invocation k has its one result envelope.
AnsweredWithResult(k) ==
    /\ Cardinality(Replies(k)) = 1
    /\ \A i \in EnvelopesFor(calls[k].line) :
           stdout[i].id = Req(k).id /\ stdout[i].member = "result"

\* C14: without a configured key, every initialize, ping and tools/list
\* request the server has dispatched is answered with a result envelope; the
\* missing key affects tools/call only.
C14_OnlyToolsCallNeedsTheKey ==
    \A k \in Invocations :
        (/\ ~apiKey
         /\ Req(k).method \in {"initialize", "ping", "tools/list"}
         /\ IdPresent(k)) => AnsweredWithResult(k)

----------------------------------------------------------------------------
(* initialize and tools/list                                                *)

ServerIdentity == [name |-> "read-images", version |-> "0.1.0"]

----------------------------------------------------------------------------
(* The model sent to the provider                                           *)

\* Invocation k is suspended at fetch: its request body has been built.
AtFetch(k) == calls[k].pc = "fetch"

----------------------------------------------------------------------------
(* The interrupt signal                                                     *)

\* C18: the step in which the signal is delivered ends the process with
\* exit code 0 and writes nothing; once the process has ended, no envelope
\* is written and no invocation moves on, so a request that was in flight
\* stays without a reply.
C18_InterruptExitsWithoutDraining ==
    /\ [](~running => exitCode = 0)
    /\ [][/\ (running /\ ~running' /\ received' = received) =>
               (stdout' = stdout /\ calls' = calls /\ exitCode' = 0)
          /\ ~running =>
               (~running' /\ stdout' = stdout /\ calls' = calls)]_vars

\* The process was interrupted while a request with an id was waiting for
\* its file read: the request has no reply.
C18_Witness ==
    \E k \in Invocations :
        /\ ~running /\ exitCode = 0
        /\ apiKey
        /\ InFlight(k) /\ IdPresent(k)
        /\ Replies(k) = {}

----------------------------------------------------------------------------
(* The size decision                                                        *)

\* Invocation k has probed its image and awaits the re-encode.
AtToBuffer(k) == calls[k].pc = "toBuffer"

Larger(w, h) == IF w > h THEN w ELSE h

\* C19: for a probed width and height, when the larger of the two exceeds
\* MAX_DIMENSION the resize constrains the width if width > height and the
\* height otherwise (a square included), so that the larger dimension of
\* the output is exactly MAX_DIMENSION; when it does not exceed
\* MAX_DIMENSION no resize is requested and the output keeps the width and
\* height of the input.
C19_ResizeConstrainsLargerDimension ==
    \A k \in Invocations :
        AtToBuffer(k) =>
            LET w == calls[k].width
                h == calls[k].height
                out == outputDims(w, h, calls[k].resize)
            IN  /\ calls[k].resize = resizeOptions(w, h)
                /\ Larger(w, h) > MAX_DIMENSION =>
                       /\ calls[k].resize = IF w > h THEN "width" ELSE "height"
                       /\ Larger(out[1], out[2]) = MAX_DIMENSION
                       /\ w > h => out[1] = MAX_DIMENSION
                       /\ w <= h => out[2] = MAX_DIMENSION
                /\ Larger(w, h) <= MAX_DIMENSION =>
                       /\ calls[k].resize = "none"
                       /\ out = <<w, h>>

\* A square image larger than the maximum is being resized by its height.
C19_Witness ==
    \E k \in Invocations :
        /\ AtToBuffer(k)
        /\ calls[k].width = calls[k].height
        /\ calls[k].width > MAX_DIMENSION
        /\ calls[k].resize = "height"

\* C20: the dimensions the pipeline produces never exceed MAX_DIMENSION, the
\* size decision taken on them requests no resize, and a second pass
\* produces the same width and height.
C20_ResizeIsIdempotent ==
    \A k \in Invocations :
        AtToBuffer(k) =>
            LET out == outputDims(calls[k].width, calls[k].height, calls[k].resize)
                again == resizeOptions(out[1], out[2])
            IN  /\ Larger(out[1], out[2]) <= MAX_DIMENSION
                /\ again = "none"
                /\ outputDims(out[1], out[2], again) = out

\* A wide image is being shrunk to MAX_DIMENSION by a smaller height.
C20_Witness ==
    \E k \in Invocations :
        /\ AtToBuffer(k)
        /\ calls[k].resize = "width"
        /\ calls[k].width > MAX_DIMENSION
        /\ outputDims(calls[k].width, calls[k].height, "width")[2] < calls[k].height

----------------------------------------------------------------------------
(* The bytes sent to the provider                                           *)

\* C21: whenever a request body has been built, its base64 payload was
\* made from the re-encoded JPEG buffer, never from the bytes of the file:
\* also for an image under the size threshold and for an image whose
\* metadata has no width or no height.
C21_PayloadIsAlwaysReencoded ==
    \A k \in Invocations :
        AtFetch(k) => calls[k].payload = "jpeg"

----------------------------------------------------------------------------
(* Unknown tools and the error codes                                        *)

\* C22: with the key configured, a tools/call whose name is not
\* analyze_image, or is absent, is rejected with MethodNotFound whatever
\* its arguments: it starts no file read and no HTTP request, and with an
\* id it gets exactly one error envelope with that code.
C22_UnknownToolIsMethodNotFound ==
    \A k \in Invocations :
        (apiKey /\ IsToolsCall(k) /\ Req(k).name # "analyze_image") =>
            /\ calls[k].pc = "written"
            /\ calls[k].how = "reject"
            /\ calls[k].error = McpError("MethodNotFound", "Unknown tool")
            /\ calls[k].reads = 0
            /\ calls[k].fetches = 0
            /\ \A i \in EnvelopesFor(calls[k].line) :
                   /\ stdout[i].id = Req(k).id
                   /\ stdout[i].member = "error"
                   /\ stdout[i].code = "MethodNotFound"
            /\ IdPresent(k) => Cardinality(Replies(k)) = 1

\* A call naming another tool, with a readable absolute path among its
\* arguments, was answered.
C22_Witness ==
    \E k \in Invocations :
        /\ apiKey /\ IsToolsCall(k)
        /\ Req(k).name = "other_tool"
        /\ Req(k).hasArgs /\ Req(k).path = AbsPath
        /\ \E i \in Replies(k) : stdout[i].code = "MethodNotFound"

ErrorCodes == {"ParseError", "MethodNotFound", "InvalidParams", "MissingApiKey",
               "InternalError"}

\* C23: every envelope on standard output that has an error member has a
\* code in {ParseError, MethodNotFound, InvalidParams, MissingApiKey,
\* InternalError}.
C23_ErrorCodesAreClosed ==
    \A i \in 1..Len(stdout) :
        stdout[i].member = "error" => stdout[i].code \in ErrorCodes

\* Two error envelopes with different codes have been written.
C23_Witness ==
    \E i, j \in 1..Len(stdout) :
        /\ stdout[i].member = "error" /\ stdout[i].code = "ParseError"
        /\ stdout[j].member = "error" /\ stdout[j].code \in {"MethodNotFound", "InvalidParams"}

\* The errors the .catch callback of run() can be handed.
Classified == {McpError(c, "m") : c \in {"MethodNotFound", "InvalidParams", "MissingApiKey"}}

Unclassified == {PlainError("handler is not a function"), PlainError("Invalid params"),
                 PlainError("Unknown method: no/such")}

\* C24: an error envelope carries data exactly when its error is not an
\* McpError: no envelope written for a classified error, and no ParseError
\* envelope, has a data member, and the .catch callback attaches the stack
\* to every unclassified error it is handed.
C24_DataOnlyForUnclassifiedErrors ==
    /\ \A i \in 1..Len(stdout) :
        (stdout[i].member = "error" /\ stdout[i].code \in ErrorCodes \ {"InternalError"}) =>
            ~stdout[i].hasData
    /\ \A k \in Invocations :
        calls[k].how = "reject" =>
            \A i \in EnvelopesFor(calls[k].line) :
                stdout[i].hasData = ~calls[k].error.mcp
    /\ \A e \in Classified : ~ErrorEnvelope(1, "num1", e).hasData
    /\ \A e \in Unclassified : ErrorEnvelope(1, "num1", e).hasData

\* An InvalidParams envelope without data has been written.
C24_Witness ==
    \E i \in 1..Len(stdout) :
        /\ stdout[i].member = "error"
        /\ stdout[i].code = "InvalidParams"
        /\ ~stdout[i].hasData

----------------------------------------------------------------------------
(* Outbound envelopes                                                       *)

\* What a client reads back from an outbound line: the id, which of the
\* members result and error the object has, and their values.
decode(envelope) ==
    [id |-> envelope.id,
     hasResult |-> envelope.member = "result",
     hasError |-> envelope.member = "error",
     result |-> envelope.result,
     code |-> envelope.code,
     message |-> envelope.message]

\* C25: every written envelope decodes to an object with exactly one of
\* result and error; the envelope of a handler that returned carries the
\* request's id and the returned value, also when nothing was returned,
\* and the envelope of a handler that threw carries the request's id and
\* the error's code and message.
C25_EnvelopeRoundTrip ==
    /\ \A i \in 1..Len(stdout) :
        decode(stdout[i]).hasResult # decode(stdout[i]).hasError
    /\ \A k \in Invocations :
        \A i \in EnvelopesFor(calls[k].line) :
            LET d == decode(stdout[i])
            IN  /\ d.id = Req(k).id
                /\ calls[k].how = "resolve" =>
                       d.hasResult /\ d.result = stringify(calls[k].result)
                /\ calls[k].how = "reject" =>
                       /\ d.hasError
                       /\ d.code = getErrorCode(calls[k].error)
                       /\ d.message = calls[k].error.message

----------------------------------------------------------------------------
(* Blank lines, arrays and ids                                              *)

\* The text after the last "\n" of text.
RECURSIVE Rest(_)
Rest(text) ==
    IF \A i \in 1..Len(text) : text[i] # NL THEN text
    ELSE LET p == CHOOSE i \in 1..Len(text) :
                    text[i] = NL /\ \A j \in 1..(i - 1) : text[j] # NL
         IN  Rest(SubSeq(text, p + 1, Len(text)))

RECURSIVE KeepSolid(_)
KeepSolid(segs) ==
    IF segs = <<>> THEN <<>>
    ELSE IF IsBlank(Head(segs)) THEN KeepSolid(Tail(segs))
    ELSE <<Head(segs)>> \o KeepSolid(Tail(segs))

RECURSIVE Joined(_)
Joined(segs) ==
    IF segs = <<>> THEN <<>>
    ELSE Head(segs) \o <<NL>> \o Joined(Tail(segs))

\* Everything received so far with its blank lines taken out.
Unblanked == Joined(KeepSolid(SplitLines(received))) \o Rest(received)

\* The 'data' handler run once, from a fresh process, on Unblanked.
OnUnblanked ==
    frameLoop([buffer |-> Unblanked, framed |-> <<>>, calls |-> <<>>,
               stdout |-> <<>>, running |-> TRUE, exitCode |-> 0,
               turn |-> <<>>], apiKey)

IsParseError(envelope) == envelope.code = "ParseError"

\* C26: a blank line is never handed to JSON.parse, so it gets no
\* ParseError, no dispatch and no envelope; and the lines framed, the
\* invocations dispatched and the ParseError envelopes written are those
\* of the same input without its blank lines.
C26_BlankLinesAreSkipped ==
    /\ \A n \in 1..Len(framed) : framed[n] # <<>> /\ ~IsBlank(framed[n])
    /\ \A i \in 1..Len(stdout) : stdout[i].line \in 1..Len(framed)
    /\ \A k \in Invocations : calls[k].line \in 1..Len(framed)
    /\ framed = OnUnblanked.framed
    /\ Len(calls) = Len(OnUnblanked.calls)
    /\ SelectSeq(stdout, IsParseError) = OnUnblanked.stdout
    /\ running => buffer = OnUnblanked.buffer

\* A whitespace-only line came before a request that was answered.
C26_Witness ==
    /\ Len(received) >= 4
    /\ received[1] = SP /\ received[2] = NL /\ received[4] = NL
    /\ Len(calls) = 1
    /\ IdPresent(1) /\ Replies(1) # {}

\* The line is the text of a JSON array: a text of Texts that denotes one,
\* or brackets around whitespace.
IsArrayLine(line) ==
    \/ Len(line) = 1 /\ line[1] \in TextChars /\ Texts[line[1]].type = "array"
    \/ Len(line) >= 2 /\ line[1] = LB /\ line[Len(line)] = RB
                      /\ \A i \in 2..(Len(line) - 1) : line[i] = SP

\* C27: a line whose JSON value is an array is dispatched once, as one
\* message without method and without id: it is rejected with
\* MethodNotFound and no envelope is written for it, whatever ids its
\* elements carry; and no inbound line gets more than one dispatch or more
\* than one envelope.
C27_ArraysAreNotBatches ==
    /\ \A n \in 1..Len(framed) :
        IsArrayLine(framed[n]) =>
            /\ EnvelopesFor(n) = {}
            /\ \A k \in Invocations :
                   calls[k].line = n =>
                       /\ Req(k).method = "undefined" /\ Req(k).id = "undefined"
                       /\ calls[k].how = "reject"
                       /\ calls[k].error.code = "MethodNotFound"
                       /\ calls[k].reads = 0 /\ calls[k].fetches = 0
    /\ \A n \in 1..Len(framed) :
        /\ Cardinality({k \in Invocations : calls[k].line = n}) <= 1
        /\ Cardinality(EnvelopesFor(n)) <= 1

\* An array holding a ping with id 1 was handled without any envelope,
\* while the same ping on a line of its own was answered.
C27_Witness ==
    \E j, k \in Invocations :
        /\ framed[calls[j].line] = <<"batch_ping_1">>
        /\ calls[j].pc = "written"
        /\ EnvelopesFor(calls[j].line) = {}
        /\ framed[calls[k].line] = <<"ping_1">>
        /\ Replies(k) # {}

----------------------------------------------------------------------------
(* The carry-over buffer and the steps of one analysis                      *)

\* What has been received up to and including its last "\n".
Terminated == SubSeq(received, 1, Len(received) - Len(Rest(received)))

\* The 'data' handler run once, from a fresh process, on Terminated.
OnTerminated ==
    frameLoop([buffer |-> Terminated, framed |-> <<>>, calls |-> <<>>,
               stdout |-> <<>>, running |-> TRUE, exitCode |-> 0,
               turn |-> <<>>], apiKey)

\* The characters the step appends to received.
Arrived == SubSeq(received', Len(received) + 1, Len(received'))

\* C29: in every state of the running server the buffer holds no newline
\* and is exactly the text received after the last newline; the lines
\* framed and the messages dispatched are those of the newline-terminated
\* part of the input alone; and a step frames a line, dispatches a message
\* or writes a ParseError only when it receives a chunk that holds a
\* newline.  With no further chunk the unterminated tail stays in the
\* buffer, neither dispatched nor answered.
C29_UnterminatedTailWaitsForNewline ==
    /\ [](/\ running => /\ \A i \in 1..Len(buffer) : buffer[i] # NL
                        /\ buffer = Rest(received)
          /\ framed = OnTerminated.framed
          /\ Len(calls) = Len(OnTerminated.calls)
          /\ \A i \in 1..Len(stdout) : stdout[i].line \in 1..Len(framed))
    /\ [][(framed' # framed \/ Len(calls') # Len(calls) \/ buffer' # buffer)
             => /\ Len(received') > Len(received)
                /\ (framed' # framed \/ Len(calls') # Len(calls))
                       => \E i \in 1..Len(Arrived) : Arrived[i] = NL]_vars

\* A request was answered, and a complete request without its newline has
\* arrived after it: it sits in the buffer, not framed and not dispatched.
C29_Witness ==
    /\ running
    /\ Len(received) = 3 /\ received[2] = NL
    /\ buffer = <<"ping_1">>
    /\ framed = <<<<"ping_0">>>>
    /\ Len(calls) = 1 /\ Replies(1) # {}
    /\ Len(stdout) = 1

Rank(pc) ==
    CASE pc = "readFile" -> 1
      [] pc = "metadata" -> 2
      [] pc = "toBuffer" -> 3
      [] pc = "fetch" -> 4
      [] pc = "text" -> 5
      [] OTHER -> 6

EarlyFailures == {"ENOENT: no such file or directory",
                  "Input buffer contains unsupported image format",
                  "sharp: toBuffer failed"}

\* C30: each tools/call reads its file at most once and sends at most one
\* HTTP request; while it is at the read, the probe or the re-encoding it
\* has sent none; a call that failed the name or path check has read
\* nothing and sent nothing, and one that failed at the read, the probe or
\* the re-encoding has sent nothing; the request is sent only in the turn
\* in which the probe (for an image without dimensions) or the re-encoding
\* of that call succeeds, after its one read; a call never steps back,
\* and once it has failed it reads and sends nothing more.
C30_StepsAreOrderedAndNotRepeated ==
    /\ [](\A k \in Invocations :
            /\ calls[k].reads <= 1 /\ calls[k].fetches <= 1
            /\ calls[k].fetches = 1 => calls[k].reads = 1
            /\ calls[k].pc \in {"readFile", "metadata", "toBuffer"} =>
                   calls[k].reads = 1 /\ calls[k].fetches = 0
            /\ calls[k].pc \in {"fetch", "text"} => calls[k].fetches = 1
            /\ calls[k].error.message \in EarlyFailures =>
                   calls[k].reads = 1 /\ calls[k].fetches = 0
            /\ calls[k].error.mcp =>
                   calls[k].reads = 0 /\ calls[k].fetches = 0
            /\ (IsToolsCall(k) /\ calls[k].how = "resolve"
                     /\ calls[k].error = NoError) =>
                   calls[k].reads = 1 /\ calls[k].fetches = 1)
    /\ [][\A k \in Invocations :
            /\ Rank(calls'[k].pc) >= Rank(calls[k].pc)
            /\ calls'[k].reads = calls[k].reads
            /\ calls'[k].fetches >= calls[k].fetches
            /\ calls'[k].fetches > calls[k].fetches =>
                   /\ calls[k].reads = 1 /\ calls[k].error = NoError
                   /\ \/ calls[k].pc = "toBuffer" /\ calls'[k].payload = "jpeg"
                      \/ calls[k].pc = "metadata" /\ calls'[k].payload = "raw"
                   /\ calls'[k].pc = "fetch"
            /\ calls[k].error # NoError =>
                   /\ Rank(calls[k].pc) = 6
                   /\ calls'[k].fetches = calls[k].fetches
                   /\ calls'[k].error = calls[k].error]_vars

\* One call failed at the re-encoding and sent nothing; another went
\* through every step and was answered after its one HTTP request.
C30_Witness ==
    \E j, k \in Invocations :
        /\ calls[j].error.message = "sharp: toBuffer failed"
        /\ calls[j].reads = 1 /\ calls[j].fetches = 0
        /\ calls[k].how = "resolve" /\ calls[k].error = NoError
        /\ IsToolsCall(k)
        /\ calls[k].fetches = 1 /\ Replies(k) # {}

----------------------------------------------------------------------------
(* No session state                                                         *)

\* A process fresh from its constructor that receives line and its newline
\* as its whole input: the invocations it dispatches and what it writes in
\* that turn.
Alone(line) ==
    LET st == frameLoop([buffer |-> line \o <<NL>>, framed |-> <<>>,
                         calls |-> <<>>, stdout |-> <<>>, running |-> TRUE,
                         exitCode |-> 0, turn |-> <<>>], apiKey)
    IN  IF st.running THEN settle(st.calls, st.stdout, st.framed, st.turn)
        ELSE [calls |-> st.calls, stdout |-> st.stdout]

\* The invocations dispatched for inbound line n.
InvocationsFor(n) == {k \in Invocations : calls[k].line = n}

\* A record about some inbound line, read as one about the first line.
AsFirst(rec) == [rec EXCEPT !.line = 1]

\* C31: every inbound line is served as a process fresh from its
\* constructor serves the same line alone, whatever messages came before
\* it (initialize and notifications/initialized included): it gets as many
\* dispatches; its invocation leaves the handler's synchronous part with
\* the same record; while the server runs, a line whose handler does not
\* await anything gets the very envelopes it gets alone, and the envelope
\* of a completed tools/call is the reply computed from that call's own
\* record and request.  The handler table is the one the constructor set
\* up, and no step changes it.
C31_NoSessionState ==
    /\ [](/\ handlers = setupHandlers
          /\ \A n \in 1..Len(framed) :
                LET alone == Alone(framed[n])
                IN  /\ Cardinality(InvocationsFor(n)) = Len(alone.calls)
                    /\ \A k \in InvocationsFor(n) :
                          /\ calls[k].reads = alone.calls[1].reads
                          /\ calls[k].reads = 0 =>
                                 [AsFirst(calls[k]) EXCEPT !.pc = "done"] =
                                     [alone.calls[1] EXCEPT !.pc = "done"]
                          /\ (running /\ calls[k].reads = 0) =>
                                 calls[k].pc = alone.calls[1].pc
                          /\ calls[k].reads = 1 => alone.calls[1].pc = "readFile"
                          /\ (running /\ calls[k].pc = "written") =>
                                 \A i \in EnvelopesFor(n) :
                                     <<stdout[i]>> = reply(calls[k], Req(k))
                    /\ (running /\ \A k \in InvocationsFor(n) : calls[k].reads = 0) =>
                           {AsFirst(stdout[i]) : i \in EnvelopesFor(n)} =
                               {alone.stdout[i] : i \in 1..Len(alone.stdout)})
    /\ [][handlers' = handlers]_vars

\* An initialize request was answered, and the analysis asked for after it
\* went through all its steps and was answered with a result.
C31_Witness ==
    /\ running
    /\ Len(calls) = 2
    /\ Req(1).method = "initialize" /\ Replies(1) # {}
    /\ Req(2).method = "tools/call"
    /\ calls[2].fetches = 1 /\ calls[2].error = NoError
    /\ \E i \in Replies(2) : stdout[i].member = "result"

====
